---- MODULE Spec2Model ----
(***************************************************************************)
(* Verification model of the executable fragments of the cookbook          *)
(* notebooks: the exact-citation validator (04_exact_citations), the PII   *)
(* scrubber (09_pii), the knowledge-graph merge (06_knowledge_graph) and   *)
(* the structured-output calls with validation and retries.                *)
(*                                                                         *)
(* Python strings are sequences of one-character strings; offsets are      *)
(* 0-based as in Python and converted at the SubSeq boundary.              *)
(***************************************************************************)
EXTENDS Integers, Sequences, FiniteSets, TLC

(***************************************************************************)
(* Bounds of the explored input space.                                     *)
(***************************************************************************)
MaxCtx == 3
MaxQuoteLen == 2
MaxQuotes == 2
MaxQAQuotes == 1
MaxFacts == 2
MaxDoc == 2
MaxPiiLen == 1
MaxPii == 2
MaxNodes == 2
MaxEdges == 1
MaxItems == 2
MaxMsg == 2
MaxSearches == 2
MaxDocLen == 3
MaxLine == 2
MaxSections == 1
MaxCols == 2
MaxRows == 1
MaxRecords == 2
MaxDrawEdges == 2
MaxParts == 2

\* Characters of contexts and quotes: an ordinary letter and the regex
\* metacharacter ".".
Chars == {"a", "."}

StrsUpTo(S, n) == UNION {[1..k -> S] : k \in 0..n}

Range(s) == {s[k] : k \in 1..Len(s)}

\* Python's s[a:b] for 0 <= a <= b <= len(s).
Slice(s, a, b) == SubSeq(s, a + 1, b)

\* q in s  (str.__contains__): q is a contiguous substring of s.
Occurs(q, s) == \E a \in 0..Len(s) : a + Len(q) <= Len(s) /\ Slice(s, a, a + Len(q)) = q

RECURSIVE Flatten(_)
Flatten(ss) == IF ss = <<>> THEN <<>> ELSE Head(ss) \o Flatten(Tail(ss))

(***************************************************************************)
(* re.escape / re.finditer, as used by Fact._get_span.                     *)
(***************************************************************************)
\* Characters the regex compiler treats specially.
MetaChars == {"."}

\* re.escape(quote): a backslash is put before every special character.
re_escape_raw(quote) == quote
RECURSIVE re_escape(_)
re_escape(quote) ==
    IF quote = <<>> THEN <<>>
    ELSE (IF Head(quote) \in MetaChars \cup {"\\"}
          THEN <<"\\", Head(quote)>> ELSE <<Head(quote)>>) \o re_escape(Tail(quote))

\* The compiled pattern: a sequence of one-character matchers.  "\c" is the
\* literal c, "." is the wildcard (any character but a newline), every other
\* character is itself.
RECURSIVE re_compile(_)
re_compile(p) ==
    IF p = <<>> THEN <<>>
    ELSE IF Head(p) = "\\" /\ Len(p) >= 2
         THEN <<[kind |-> "lit", ch |-> p[2]]>> \o re_compile(Tail(Tail(p)))
    ELSE IF Head(p) = "."
         THEN <<[kind |-> "any", ch |-> "."]>> \o re_compile(Tail(p))
    ELSE <<[kind |-> "lit", ch |-> Head(p)]>> \o re_compile(Tail(p))

TokMatch(t, c) == IF t.kind = "any" THEN c # "\n" ELSE t.ch = c

\* The pattern matches at 0-based offset i of s.
MatchAt(pat, s, i) ==
    /\ i + Len(pat) <= Len(s)
    /\ \A k \in 1..Len(pat) : TokMatch(pat[k], s[i + k])

\* re.finditer: the non-overlapping matches, scanning left to right; an empty
\* pattern matches once at every offset 0..len(s).
RECURSIVE finditer_from(_, _, _)
finditer_from(pat, s, pos) ==
    IF pos > Len(s) THEN <<>>
    ELSE IF MatchAt(pat, s, pos)
         THEN <<(<<pos, pos + Len(pat)>>)>>
              \o finditer_from(pat, s, IF Len(pat) = 0 THEN pos + 1 ELSE pos + Len(pat))
    ELSE finditer_from(pat, s, pos + 1)

\* Fact._get_span: the spans of re.finditer(re.escape(quote), context).
_get_span(quote, context) == finditer_from(re_compile(re_escape(quote)), context, 0)

\* Fact.get_spans: the spans of every quote, in list order.
get_spans(substring_quote, context) ==
    Flatten([k \in 1..Len(substring_quote) |-> _get_span(substring_quote[k], context)])

\* Fact.validate_sources: substring_quote becomes the context slices of the spans.
validate_sources_noop(substring_quote, text_chunks) == substring_quote
validate_sources(substring_quote, text_chunks) ==
    LET spans == get_spans(substring_quote, text_chunks)
    IN  [k \in 1..Len(spans) |-> Slice(text_chunks, spans[k][1], spans[k][2])]

\* QuestionAnswer.validate_sources: the Facts with at least one quote, in order.
HasQuote(f) == Len(f.substring_quote) > 0
KeepAny(f) == Len(f.substring_quote) >= 0
qa_validate_sources_keepall(facts) == SelectSeq(facts, KeepAny)
qa_validate_sources(facts) == SelectSeq(facts, HasQuote)

(***************************************************************************)
(* str.replace and the placeholder f-string, as used by scrub_data.        *)
(***************************************************************************)
Digits == <<"0", "1", "2", "3", "4", "5", "6", "7", "8", "9">>

\* str(i) for an integer i >= 0: its decimal digits.
RECURSIVE int_to_str(_)
int_to_str(i) ==
    IF i < 10 THEN <<Digits[i + 1]>>
    ELSE int_to_str(i \div 10) \o <<Digits[(i % 10) + 1]>>

\* f"<{data_type}_{i}>"
placeholder(data_type, i) == <<"<">> \o data_type \o <<"_">> \o int_to_str(i) \o <<">">>

\* s.replace("", new): new goes before every character and after the last.
RECURSIVE interleave(_, _)
interleave(s, new) ==
    IF s = <<>> THEN new ELSE new \o <<Head(s)>> \o interleave(Tail(s), new)

\* s.replace(old, new): every non-overlapping occurrence of old, scanning
\* left to right, becomes new; the inserted text is not rescanned.
RECURSIVE str_replace(_, _, _)
str_replace(s, old, new) ==
    IF old = <<>> THEN interleave(s, new)
    ELSE IF Len(s) < Len(old) THEN s
    ELSE IF SubSeq(s, 1, Len(old)) = old
         THEN new \o str_replace(SubSeq(s, Len(old) + 1, Len(s)), old, new)
    ELSE <<Head(s)>> \o str_replace(Tail(s), old, new)

\* The text held by `content` in scrub_data after the loop handled the entries
\* with enumerate index 0..n-1.
RECURSIVE scrub_prefix(_, _, _)
scrub_prefix(private_data, content, n) ==
    IF n = 0 THEN content
    ELSE str_replace(scrub_prefix(private_data, content, n - 1),
                     private_data[n].pii_value,
                     placeholder(private_data[n].data_type, n - 1))

\* PIIDataExtraction.scrub_data
scrub_data(private_data, content) == scrub_prefix(private_data, content, Len(private_data))

(***************************************************************************)
(* KnowledgeGraph: hashable nodes and edges, and the merge.                *)
(***************************************************************************)
\* type(self) of a Node or an Edge.
type_of(x) == IF "id" \in DOMAIN x THEN "Node" ELSE "Edge"

\* BaseModelHashable.__hash__: the type followed by the field values.
model_hash(x) ==
    IF type_of(x) = "Node" THEN <<"Node", x.id, x.label, x.color>>
    ELSE <<"Edge", x.source, x.target, x.label, x.color>>

\* set(items): an item is added unless an item with the same hash that is
\* equal to it (BaseModel.__eq__: same type, same field values) is there.
RECURSIVE py_set(_)
py_set(items) ==
    IF items = <<>> THEN {}
    ELSE LET rest == py_set(SubSeq(items, 1, Len(items) - 1))
             x == items[Len(items)]
         IN  IF \E y \in rest : model_hash(y) = model_hash(x) /\ y = x
             THEN rest ELSE rest \cup {x}

\* list(s) for a set s: its elements once each, in an order the hash table
\* decides; every order is possible.
py_list(S) == {l \in [1..Cardinality(S) -> S] : Range(l) = S}

\* KnowledgeGraph.update: the graphs update() can return.
update_concat(self, other) ==
    {[nodes |-> self.nodes \o other.nodes, edges |-> self.edges \o other.edges]}
update(self, other) ==
    {[nodes |-> ns, edges |-> es] :
        ns \in py_list(py_set(self.nodes \o other.nodes)),
        es \in py_list(py_set(self.edges \o other.edges))}

(***************************************************************************)
(* Structured-output calls: response models, their validation, and the     *)
(* create call of the patched client with its retry count.                 *)
(***************************************************************************)
\* The call sites.
CallSites == {"classify", "multi_classify", "groq_extract", "qa_noevil", "qa_noevil_retry"}

\* Literal[...] of SpamPrediction.label and of CustomerSupportType.label.
SpamLabels == {"spam", "not_spam"}
SupportLabels == {"tech_issue", "billing", "general_query"}

NoObject == [type |-> "None"]
NoError == <<>>

Valid(obj) == [ok |-> TRUE, obj |-> obj, err |-> NoError]
Invalid(err) == [ok |-> FALSE, obj |-> NoObject, err |-> err]

\* A model with the single field label: Literal[labels].
validate_label(raw, labels, type) ==
    IF "label" \in DOMAIN raw /\ raw.label \in labels
    THEN Valid([type |-> type, label |-> raw.label])
    ELSE Invalid(<<"literal_error", "label">>)

validate_SpamPrediction_anystr(raw) ==
    IF "label" \in DOMAIN raw
    THEN Valid([type |-> "SpamPrediction", label |-> raw.label])
    ELSE Invalid(<<"missing", "label">>)
validate_SpamPrediction(raw) == validate_label(raw, SpamLabels, "SpamPrediction")

validate_CustomerSupportType(raw) == validate_label(raw, SupportLabels, "CustomerSupportType")

\* int(s) for a string of decimal digits.
DigitValue(c) == CHOOSE d \in 0..9 : Digits[d + 1] = c
IsNumeral(str) == str # <<>> /\ \A k \in 1..Len(str) : str[k] \in Range(Digits)
RECURSIVE parse_int(_)
parse_int(str) ==
    IF str = <<>> THEN 0
    ELSE 10 * parse_int(SubSeq(str, 1, Len(str) - 1)) + DigitValue(str[Len(str)])

\* UserExtract: name: str, age: int (an integer, or a string of digits that
\* is converted).
validate_UserExtract(raw) ==
    IF ~({"name", "age"} \subseteq DOMAIN raw) THEN Invalid(<<"missing", "field">>)
    ELSE IF raw.age.t = "int"
         THEN Valid([type |-> "UserExtract", name |-> raw.name, age |-> raw.age.i])
    ELSE IF IsNumeral(raw.age.s)
         THEN Valid([type |-> "UserExtract", name |-> raw.name, age |-> parse_int(raw.age.s)])
    ELSE Invalid(<<"int_parsing", "age">>)

\* QuestionAnswerNoEvil: answer goes through llm_validator, which asserts the
\* verdict of the judging model and fails with its reason.
validate_QuestionAnswerNoEvil(raw, verdict) ==
    IF verdict.is_valid
    THEN Valid([type |-> "QuestionAnswerNoEvil", question |-> raw.question, answer |-> raw.answer])
    ELSE Invalid(<<"Assertion failed", verdict.reason>>)

\* response_model of each call site, applied to one generated record.
validate(site, raw, verdict) ==
    CASE site = "classify" -> validate_SpamPrediction(raw)
      [] site = "multi_classify" -> validate_CustomerSupportType(raw)
      [] site = "groq_extract" -> validate_UserExtract(raw)
      [] OTHER -> validate_QuestionAnswerNoEvil(raw, verdict)

\* max_retries=3 of the retrying call; a call without the argument makes one
\* request.
MaxRetries == 3
DefaultMaxRetries == 1
max_retries_more(site) == IF site = "qa_noevil_retry" THEN MaxRetries + 2 ELSE DefaultMaxRetries
max_retries(site) == IF site = "qa_noevil_retry" THEN MaxRetries ELSE DefaultMaxRetries

\* The retry loop asks again while fewer than max_retries requests were made.
retry_allowed_always(site, made) == TRUE
retry_allowed(site, made) == made < max_retries(site)

\* The messages a create call starts with.
messages_of(site) ==
    IF site \in {"qa_noevil", "qa_noevil_retry"}
    THEN <<[role |-> "system", content |-> <<"prompt">>], [role |-> "user", content |-> <<"prompt">>]>>
    ELSE <<[role |-> "user", content |-> <<"prompt">>]>>

\* The messages of the next request after a validation error: the rejected
\* response and the error message as correction.
reask_messages(messages, err) ==
    messages \o <<[role |-> "assistant", content |-> <<"response">>],
                  [role |-> "user", content |-> err]>>

\* except Exception as e: print(e)  -- the bound name keeps its value.
on_exception_rebind(bound, out, err) == [bound |-> NoObject, out |-> Append(out, err)]
on_exception(bound, out, err) == [bound |-> bound, out |-> Append(out, err)]

(***************************************************************************)
(* State.                                                                  *)
(***************************************************************************)
VARIABLES
    text_chunk,       \* validation context {"text_chunk": context} of a Fact
    submitted,        \* the substring_quote list the Fact was built from
    substring_quote,  \* Fact.substring_quote
    fact_pc,          \* "built" before the after-validator ran, "validated" after
    qa_context,       \* validation context of a QuestionAnswer
    qa_submitted,     \* the quote lists of the Facts the model generated
    answer,           \* QuestionAnswer.answer: Facts [id, substring_quote]
    qa_done,          \* number of Facts whose own validator has run
    qa_pc,            \* "idle", "fields", "done"
    private_data,     \* PIIDataExtraction.private_data: Data [data_type, pii_value]
    document,         \* the content argument of scrub_data
    scrubbed,         \* the value scrub_data returned
    scrub_pc,         \* "idle", "call", "done"
    kg_self,          \* the KnowledgeGraph update is called on
    kg_other,         \* the argument of update
    kg_result,        \* the KnowledgeGraph update returned
    kg_pc,            \* "idle", "call", "done"
    call_site,        \* the create call being made
    call_pc,          \* "idle", "ready", "returned", "raised", "undefined"
    call_made,        \* number of requests sent to the model
    call_messages,    \* messages of the next request
    call_response,    \* the records the model generated last
    call_verdict,     \* what the judging model of llm_validator said last
    call_yielded,     \* the objects the call handed to its caller
    call_error,       \* the message of the last validation error
    cell_pc,          \* the notebook cell: "idle", "running", "finished", "aborted"
    nb_bound,         \* the value of the name the cell assigns (qa, user, ...)
    nb_out,           \* what the cell printed
    mod_message,      \* the message argument of Response(message=...)
    mod_verdict,      \* what the moderation endpoint answers for the message
    mod_value,        \* the value of the field message once computed
    mod_response,     \* the Response the construction produced
    mod_error,        \* the validation error the construction raised
    mod_pc,           \* "idle", "construct", "field", "built", "raised", "printed"
    mod_out,          \* what the cell printed
    search_pc,        \* "idle", "call", "waiting", "loop", "done"
    search_results,   \* the Search items segment returned
    search_next,      \* number of items the for loop has handled
    search_out,       \* the lines the cell printed
    search_tasks,     \* the operations in progress (requests, execute coroutines)
    seg_document,     \* the text of the document
    seg_numbered,     \* document_with_line_numbers
    seg_line2text,    \* line2text: the text of line i at position i + 1
    seg_sections,     \* structured_doc.sections: [title, start_index, end_index]
    seg_segments,     \* the list get_sections_text returned
    seg_pc,           \* "idle", "lines", "structure", "text", "done"
    tbl_header,       \* the header cells of the table the model wrote down
    tbl_rows,         \* its rows of cells
    tbl_data,         \* the value given for the field dataframe
    tbl_result,       \* what md_to_df returned or raised
    tbl_pc,           \* "idle", "before", "instance", "valid", "invalid", "raised"
    draw_site,        \* the graph being drawn: "none", "entity", "kg", "tickets"
    draw_entities,    \* DocumentExtraction.entities given to generate_graph
    draw_graph,       \* the KnowledgeGraph draw is called on
    draw_tickets,     \* prediction: the Tickets of the action items cell
    draw_body,        \* the node and edge statements given to the Digraph, in order
    draw_pc,          \* "idle", "build", "rendered"
    gen_input,        \* the argument of the iterative generate_graph
    gen_heap,         \* the KnowledgeGraph objects created so far; a reference is a position
    gen_cur,          \* cur_state: a reference
    gen_new,          \* new_updates: a reference, 0 before the first response
    gen_i,            \* number of iterations completed
    gen_calls,        \* the requests sent so far, in order
    gen_responses,    \* the graphs the model answered with, in order
    gen_result,       \* the reference generate_graph returned, 0 before it returns
    gen_pc            \* "idle", "loop", "waiting", "update", "returned", "raised"

factVars == <<text_chunk, submitted, substring_quote, fact_pc>>
qaVars == <<qa_context, qa_submitted, answer, qa_done, qa_pc>>

scrubVars == <<private_data, document, scrubbed, scrub_pc>>

kgVars == <<kg_self, kg_other, kg_result, kg_pc>>

callVars == <<call_site, call_pc, call_made, call_messages, call_response, call_verdict,
              call_yielded, call_error, cell_pc, nb_bound, nb_out>>

modVars == <<mod_message, mod_verdict, mod_value, mod_response, mod_error, mod_pc, mod_out>>

searchVars == <<search_pc, search_results, search_next, search_out, search_tasks>>


Contexts == StrsUpTo(Chars, MaxCtx)
Quotes == StrsUpTo(Chars, MaxQuoteLen)
QuoteLists == StrsUpTo(Quotes, MaxQuotes)
\* Quotes of the Facts of a QuestionAnswer: the empty quote and the one-character quotes.
QAQuotes == StrsUpTo(Chars, 1)
QAQuoteLists == StrsUpTo(QAQuotes, MaxQAQuotes)
QAFactLists == StrsUpTo(QAQuoteLists, MaxFacts)

FactIdle ==
    /\ text_chunk = <<>>
    /\ submitted = <<>>
    /\ substring_quote = <<>>
    /\ fact_pc = "idle"

QAIdle ==
    /\ qa_context = <<>>
    /\ qa_submitted = <<>>
    /\ answer = <<>>
    /\ qa_done = 0
    /\ qa_pc = "idle"

ScrubIdle ==
    /\ private_data = <<>>
    /\ document = <<>>
    /\ scrubbed = <<>>
    /\ scrub_pc = "idle"

EmptyGraph == [nodes |-> <<>>, edges |-> <<>>]

KGIdle ==
    /\ kg_self = EmptyGraph
    /\ kg_other = EmptyGraph
    /\ kg_result = EmptyGraph
    /\ kg_pc = "idle"

NoVerdict == [is_valid |-> TRUE, reason |-> "none"]

CallIdle ==
    /\ call_site = "none"
    /\ call_pc = "idle"
    /\ call_made = 0
    /\ call_messages = <<>>
    /\ call_response = <<>>
    /\ call_verdict = NoVerdict
    /\ call_yielded = <<>>
    /\ call_error = NoError
    /\ cell_pc = "idle"
    /\ nb_bound = NoObject
    /\ nb_out = <<>>

ModIdle ==
    /\ mod_message = <<>>
    /\ mod_verdict = [flagged |-> FALSE, categories |-> {}]
    /\ mod_value = <<>>
    /\ mod_response = NoObject
    /\ mod_error = NoError
    /\ mod_pc = "idle"
    /\ mod_out = <<>>

SearchIdle ==
    /\ search_pc = "idle"
    /\ search_results = <<>>
    /\ search_next = 0
    /\ search_out = <<>>
    /\ search_tasks = {}

segVars == <<seg_document, seg_numbered, seg_line2text, seg_sections, seg_segments, seg_pc>>

SegIdle ==
    /\ seg_document = <<>>
    /\ seg_numbered = <<>>
    /\ seg_line2text = <<>>
    /\ seg_sections = <<>>
    /\ seg_segments = <<>>
    /\ seg_pc = "idle"

tblVars == <<tbl_header, tbl_rows, tbl_data, tbl_result, tbl_pc>>

EmptyFrame == [index_name |-> <<>>, index |-> <<>>, columns |-> <<>>, values |-> <<>>]
NoTable == [kind |-> "None", frame |-> EmptyFrame, text |-> <<>>]
NoResult == [ok |-> TRUE, error |-> "none", value |-> NoTable]

TblIdle ==
    /\ tbl_header = <<>>
    /\ tbl_rows = <<>>
    /\ tbl_data = NoTable
    /\ tbl_result = NoResult
    /\ tbl_pc = "idle"

drawVars == <<draw_site, draw_entities, draw_graph, draw_tickets, draw_body, draw_pc>>

DrawIdle ==
    /\ draw_site = "none"
    /\ draw_entities = <<>>
    /\ draw_graph = EmptyGraph
    /\ draw_tickets = <<>>
    /\ draw_body = <<>>
    /\ draw_pc = "idle"

genVars == <<gen_input, gen_heap, gen_cur, gen_new, gen_i, gen_calls, gen_responses,
             gen_result, gen_pc>>

GenIdle ==
    /\ gen_input = <<>>
    /\ gen_heap = <<>>
    /\ gen_cur = 0
    /\ gen_new = 0
    /\ gen_i = 0
    /\ gen_calls = <<>>
    /\ gen_responses = <<>>
    /\ gen_result = 0
    /\ gen_pc = "idle"

\* Frames: the whole state, and for each later notebook the state of the others.
baseVars == <<factVars, qaVars, scrubVars, kgVars, callVars>>

bookVars == <<modVars, searchVars, segVars, tblVars, drawVars, genVars>>

vars == <<factVars, qaVars, scrubVars, kgVars, callVars, bookVars>>

BaseIdle == FactIdle /\ QAIdle /\ ScrubIdle /\ KGIdle /\ CallIdle

BookIdle == ModIdle /\ SearchIdle /\ SegIdle /\ TblIdle /\ DrawIdle /\ GenIdle

notModVars == <<baseVars, searchVars, segVars, tblVars, drawVars, genVars>>

NotModIdle == BaseIdle /\ SearchIdle /\ SegIdle /\ TblIdle /\ DrawIdle /\ GenIdle

notSearchVars == <<baseVars, modVars, segVars, tblVars, drawVars, genVars>>

NotSearchIdle == BaseIdle /\ ModIdle /\ SegIdle /\ TblIdle /\ DrawIdle /\ GenIdle

notSegVars == <<baseVars, modVars, searchVars, tblVars, drawVars, genVars>>

NotSegIdle == BaseIdle /\ ModIdle /\ SearchIdle /\ TblIdle /\ DrawIdle /\ GenIdle

notTblVars == <<baseVars, modVars, searchVars, segVars, drawVars, genVars>>

NotTblIdle == BaseIdle /\ ModIdle /\ SearchIdle /\ SegIdle /\ DrawIdle /\ GenIdle

notDrawVars == <<baseVars, modVars, searchVars, segVars, tblVars, genVars>>

NotDrawIdle == BaseIdle /\ ModIdle /\ SearchIdle /\ SegIdle /\ TblIdle /\ GenIdle

notGenVars == <<baseVars, modVars, searchVars, segVars, tblVars, drawVars>>

NotGenIdle == BaseIdle /\ ModIdle /\ SearchIdle /\ SegIdle /\ TblIdle /\ DrawIdle

(***************************************************************************)
(* A single Fact validated against a context.                              *)
(***************************************************************************)
FactInit ==
    /\ text_chunk \in Contexts
    /\ submitted \in QuoteLists
    /\ substring_quote = submitted
    /\ fact_pc = "built"

\* The mode="after" validator of Fact runs once on the built object.
FactValidate ==
    /\ fact_pc = "built"
    /\ substring_quote' = validate_sources(substring_quote, text_chunk)
    /\ fact_pc' = "validated"
    /\ UNCHANGED <<text_chunk, submitted, qaVars, scrubVars, kgVars, callVars, bookVars>>

Init == FactInit /\ QAIdle /\ ScrubIdle /\ KGIdle /\ CallIdle /\ BookIdle

Next == FactValidate

Spec == Init /\ [][Next]_vars

(***************************************************************************)
(* A QuestionAnswer validated against a context: the answer field          *)
(* (List[Fact]) is validated element by element, each Fact running its own *)
(* after-validator, and then the after-validator of QuestionAnswer runs.   *)
(***************************************************************************)
QAInit ==
    /\ qa_context \in Contexts
    /\ qa_submitted \in QAFactLists
    /\ answer = [i \in 1..Len(qa_submitted) |->
                    [id |-> i, substring_quote |-> qa_submitted[i]]]
    /\ qa_done = 0
    /\ qa_pc = "fields"

QAFactValidate ==
    /\ qa_pc = "fields"
    /\ qa_done < Len(answer)
    /\ LET i == qa_done + 1
       IN  answer' = [answer EXCEPT ![i].substring_quote =
                          validate_sources(answer[i].substring_quote, qa_context)]
    /\ qa_done' = qa_done + 1
    /\ UNCHANGED <<qa_context, qa_submitted, qa_pc, factVars, scrubVars, kgVars, callVars, bookVars>>

QAValidate ==
    /\ qa_pc = "fields"
    /\ qa_done = Len(answer)
    /\ answer' = qa_validate_sources(answer)
    /\ qa_pc' = "done"
    /\ UNCHANGED <<qa_context, qa_submitted, qa_done, factVars, scrubVars, kgVars, callVars, bookVars>>

InitQA == FactIdle /\ QAInit /\ ScrubIdle /\ KGIdle /\ CallIdle /\ BookIdle

NextQA == QAFactValidate \/ QAValidate

SpecQA == InitQA /\ [][NextQA]_vars

(***************************************************************************)
(* scrub_data called on an extraction and a document.                      *)
(***************************************************************************)
\* Characters of documents and PII values; they include characters that the
\* placeholders are made of.
DocChars == {"a", "N", "0"}
DataTypes == {<<"N">>, <<"a">>}
PiiEntries == [data_type : DataTypes, pii_value : StrsUpTo(DocChars, MaxPiiLen)]

ScrubInit ==
    /\ private_data \in StrsUpTo(PiiEntries, MaxPii)
    /\ document \in StrsUpTo(DocChars, MaxDoc)
    /\ scrubbed = <<>>
    /\ scrub_pc = "call"

Scrub ==
    /\ scrub_pc = "call"
    /\ scrubbed' = scrub_data(private_data, document)
    /\ scrub_pc' = "done"
    /\ UNCHANGED <<private_data, document, factVars, qaVars, kgVars, callVars, bookVars>>

InitScrub == FactIdle /\ QAIdle /\ ScrubInit /\ KGIdle /\ CallIdle /\ BookIdle

NextScrub == Scrub

SpecScrub == InitScrub /\ [][NextScrub]_vars

(***************************************************************************)
(* update called on two knowledge graphs.                                  *)
(***************************************************************************)
\* Nodes that share an id and differ in the label, and a node with another id.
NodePool ==
    {[id |-> 1, label |-> "x", color |-> "red"],
     [id |-> 1, label |-> "y", color |-> "red"],
     [id |-> 2, label |-> "x", color |-> "red"]}
EdgePool ==
    {[source |-> 1, target |-> 2, label |-> "e", color |-> "black"],
     [source |-> 2, target |-> 1, label |-> "e", color |-> "black"]}
Graphs == [nodes : StrsUpTo(NodePool, MaxNodes), edges : StrsUpTo(EdgePool, MaxEdges)]

KGInit ==
    /\ kg_self \in Graphs
    /\ kg_other \in Graphs
    /\ kg_result = EmptyGraph
    /\ kg_pc = "call"

KGUpdate ==
    /\ kg_pc = "call"
    /\ kg_result' \in update(kg_self, kg_other)
    /\ kg_pc' = "done"
    /\ UNCHANGED <<kg_self, kg_other, factVars, qaVars, scrubVars, callVars, bookVars>>

InitKG == FactIdle /\ QAIdle /\ ScrubIdle /\ KGInit /\ CallIdle /\ BookIdle

NextKG == KGUpdate

SpecKG == InitKG /\ [][NextKG]_vars

(***************************************************************************)
(* A notebook cell making a create call.  Every request gets a generated   *)
(* record back (a sequence of records for create_iterable); the record is  *)
(* validated against the response model; a validation error ends the call  *)
(* or, while the retry count allows, leads to a new request that carries   *)
(* the error message.                                                      *)
(***************************************************************************)
\* What the model can generate for each response model, conforming or not.
RawLabels == SpamLabels \cup SupportLabels \cup {"maybe"}
RawLabelRecords == [label : RawLabels] \cup [lable : {"spam"}]
RawAges == {[t |-> "int", i |-> 64], [t |-> "str", s |-> <<"6", "4">>], [t |-> "str", s |-> <<"a">>]}
RawUsers == [name : {"Paul"}, age : RawAges] \cup [name : {"Paul"}]
RawAnswers == [question : {"q"}, answer : {"evil", "fine"}]
RawResponses(site) ==
    CASE site = "classify" -> {<<r>> : r \in RawLabelRecords}
      [] site = "multi_classify" -> StrsUpTo(RawLabelRecords, MaxItems)
      [] site = "groq_extract" -> {<<r>> : r \in RawUsers}
      [] OTHER -> {<<r>> : r \in RawAnswers}

Verdicts(site) ==
    IF site \in {"qa_noevil", "qa_noevil_retry"}
    THEN {NoVerdict, [is_valid |-> FALSE, reason |-> "objectionable"]}
    ELSE {NoVerdict}

\* The value the name holds before the cell runs: nothing, or the object an
\* earlier cell bound to it.
PriorBindings == {NoObject, [type |-> "QuestionAnswer", question |-> "q", answer |-> "evil"]}

\* The validated objects of the leading conforming records of a response.
RECURSIVE valid_prefix(_, _, _)
valid_prefix(site, raws, verdict) ==
    IF raws = <<>> \/ ~validate(site, Head(raws), verdict).ok THEN <<>>
    ELSE <<validate(site, Head(raws), verdict).obj>> \o valid_prefix(site, Tail(raws), verdict)

\* The error of the first record that does not conform (NoError if none).
RECURSIVE first_error(_, _, _)
first_error(site, raws, verdict) ==
    IF raws = <<>> THEN NoError
    ELSE IF ~validate(site, Head(raws), verdict).ok THEN validate(site, Head(raws), verdict).err
    ELSE first_error(site, Tail(raws), verdict)

CallInit ==
    /\ call_site \in CallSites
    /\ call_pc = "ready"
    /\ call_made = 0
    /\ call_messages = messages_of(call_site)
    /\ call_response = <<>>
    /\ call_verdict = NoVerdict
    /\ call_yielded = <<>>
    /\ call_error = NoError
    /\ cell_pc = "running"
    /\ nb_bound \in PriorBindings
    /\ nb_out = <<>>

\* A request whose response validates: the call returns the objects.
RequestOk ==
    /\ call_pc = "ready"
    /\ \E raws \in RawResponses(call_site), verdict \in Verdicts(call_site) :
          /\ first_error(call_site, raws, verdict) = NoError
          /\ call_yielded' = valid_prefix(call_site, raws, verdict)
          /\ call_verdict' = verdict
          /\ call_response' = raws
    /\ call_made' = call_made + 1
    /\ call_pc' = "returned"
    /\ UNCHANGED <<call_site, call_messages, call_error, cell_pc, nb_bound, nb_out,
                   factVars, qaVars, scrubVars, kgVars, bookVars>>

\* A request whose response fails validation while the retry count allows
\* another request: the next request carries the error message.
RequestRetry ==
    /\ call_pc = "ready"
    /\ retry_allowed(call_site, call_made + 1)
    /\ \E raws \in RawResponses(call_site), verdict \in Verdicts(call_site) :
          /\ first_error(call_site, raws, verdict) # NoError
          /\ call_error' = first_error(call_site, raws, verdict)
          /\ call_messages' = reask_messages(call_messages, first_error(call_site, raws, verdict))
          /\ call_verdict' = verdict
          /\ call_response' = raws
    /\ call_made' = call_made + 1
    /\ UNCHANGED <<call_site, call_pc, call_yielded, cell_pc, nb_bound, nb_out,
                   factVars, qaVars, scrubVars, kgVars, bookVars>>

\* A request whose response fails validation with no request left: the call
\* raises the validation error.  An iterable has handed over the objects
\* before the failing one.
RequestRaise ==
    /\ call_pc = "ready"
    /\ ~retry_allowed(call_site, call_made + 1)
    /\ \E raws \in RawResponses(call_site), verdict \in Verdicts(call_site) :
          /\ first_error(call_site, raws, verdict) # NoError
          /\ call_error' = first_error(call_site, raws, verdict)
          /\ call_yielded' = IF call_site = "multi_classify"
                             THEN valid_prefix(call_site, raws, verdict) ELSE <<>>
          /\ call_verdict' = verdict
          /\ call_response' = raws
    /\ call_made' = call_made + 1
    /\ call_pc' = "raised"
    /\ UNCHANGED <<call_site, call_messages, cell_pc, nb_bound, nb_out,
                   factVars, qaVars, scrubVars, kgVars, bookVars>>

\* The call returned: the cell binds the result to its name; the retrying
\* cell then prints it.
CellBind ==
    /\ cell_pc = "running"
    /\ call_pc = "returned"
    /\ nb_bound' = IF call_site = "multi_classify"
                   THEN [type |-> "list", items |-> call_yielded] ELSE call_yielded[1]
    /\ nb_out' = IF call_site = "qa_noevil_retry" THEN Append(nb_out, <<"qa">>) ELSE nb_out
    /\ cell_pc' = "finished"
    /\ UNCHANGED <<call_site, call_pc, call_made, call_messages, call_response, call_verdict,
                   call_yielded, call_error, factVars, qaVars, scrubVars, kgVars, bookVars>>

\* The call raised inside try: the handler prints the exception.
CellExcept ==
    /\ cell_pc = "running"
    /\ call_pc = "raised"
    /\ call_site = "qa_noevil"
    /\ LET h == on_exception(nb_bound, nb_out, call_error)
       IN  nb_bound' = h.bound /\ nb_out' = h.out
    /\ cell_pc' = "finished"
    /\ UNCHANGED <<call_site, call_pc, call_made, call_messages, call_response, call_verdict,
                   call_yielded, call_error, factVars, qaVars, scrubVars, kgVars, bookVars>>

\* The call raised outside try: the exception ends the cell.
CellAbort ==
    /\ cell_pc = "running"
    /\ call_pc = "raised"
    /\ call_site # "qa_noevil"
    /\ cell_pc' = "aborted"
    /\ UNCHANGED <<call_site, call_pc, call_made, call_messages, call_response, call_verdict,
                   call_yielded, call_error, nb_bound, nb_out,
                   factVars, qaVars, scrubVars, kgVars, bookVars>>

\* def classify(...) -> SinglePrediction and def multi_classify(...) ->
\* MultiClassPrediction name classes the notebook does not define: unless the
\* kernel holds them from an earlier session, the def statement raises
\* NameError and no request is made.
undefined_annotation(site) == site \in {"classify", "multi_classify"}

CellNameError ==
    /\ cell_pc = "running"
    /\ call_pc = "ready"
    /\ call_made = 0
    /\ undefined_annotation(call_site)
    /\ call_pc' = "undefined"
    /\ cell_pc' = "aborted"
    /\ UNCHANGED <<call_site, call_made, call_messages, call_response, call_verdict,
                   call_yielded, call_error, nb_bound, nb_out,
                   factVars, qaVars, scrubVars, kgVars, bookVars>>

InitCall == FactIdle /\ QAIdle /\ ScrubIdle /\ KGIdle /\ CallInit /\ BookIdle

NextCall ==
    \/ RequestOk \/ RequestRetry \/ RequestRaise
    \/ CellBind \/ CellExcept \/ CellAbort \/ CellNameError

SpecCall == InitCall /\ [][NextCall]_vars

\* Cells run to completion: a step that can be taken is taken.
FairSpecCall == SpecCall /\ WF_vars(NextCall)

(***************************************************************************)
(* 11_moderation: Response(message=...) built in a try/except cell.        *)
(***************************************************************************)
\* Categories the moderation endpoint can report (two of them stand for all).
Categories == {"violence", "self_harm"}
ModVerdicts == [flagged : BOOLEAN, categories : SUBSET Categories]
Messages == StrsUpTo(Chars, MaxMsg)

\* The validator openai_moderation(client=client) builds: a flagged value raises
\* "`v` was flagged for <categories>", any other value is returned as it is.
openai_moderation_unchecked(v, verdict) == Valid(v)

openai_moderation(v, verdict) ==
    IF verdict.flagged
    THEN Invalid(<<[title |-> "1 validation error for Response", loc |-> "message",
                    input |-> v, flagged_for |-> verdict.categories]>>)
    ELSE Valid(v)

ModInit ==
    /\ mod_message \in Messages
    /\ mod_verdict \in ModVerdicts
    /\ mod_value = <<>>
    /\ mod_response = NoObject
    /\ mod_error = NoError
    /\ mod_pc = "construct"
    /\ mod_out = <<>>

\* message: Annotated[str, ...]: the str field is computed from the argument.
ResponseField ==
    /\ mod_pc = "construct"
    /\ mod_value' = mod_message
    /\ mod_pc' = "field"
    /\ UNCHANGED <<mod_message, mod_verdict, mod_response, mod_error, mod_out, notModVars>>

\* AfterValidator(openai_moderation(client=client)) runs on the computed field.
ResponseAfterValidator ==
    /\ mod_pc = "field"
    /\ LET r == openai_moderation(mod_value, mod_verdict)
       IN  /\ mod_response' = IF r.ok THEN [type |-> "Response", message |-> r.obj]
                                       ELSE NoObject
           /\ mod_error' = r.err
           /\ mod_pc' = IF r.ok THEN "built" ELSE "raised"
    /\ UNCHANGED <<mod_message, mod_verdict, mod_value, mod_out, notModVars>>

\* except Exception as e: print(e)
ModCellExcept ==
    /\ mod_pc = "raised"
    /\ mod_out' = Append(mod_out, mod_error)
    /\ mod_pc' = "printed"
    /\ UNCHANGED <<mod_message, mod_verdict, mod_value, mod_response, mod_error, notModVars>>

InitMod == ModInit /\ NotModIdle

NextMod == ResponseField \/ ResponseAfterValidator \/ ModCellExcept

SpecMod == InitMod /\ [][NextMod]_vars

(***************************************************************************)
(* 05_search: for search in segment(...): print(search.model_dump_json()). *)
(***************************************************************************)
SearchTypes == {"web", "image", "video"}
SearchQueries == {"cat", "dog"}
Searches == [query : SearchQueries, type : SearchTypes]
SearchLists == StrsUpTo(Searches, MaxSearches)

\* Search.model_dump_json(): the fields in declaration order.
model_dump_json(search) == <<"query", search.query, "type", search.type>>

\* The operations the body of the for loop starts for item k and leaves running:
\* it prints the item and neither calls nor awaits Search.execute.
loop_body_tasks_execute(search, k) == {[op |-> "execute", item |-> k]}

loop_body_tasks(search, k) == {}

SearchInit ==
    /\ search_pc = "call"
    /\ search_results = <<>>
    /\ search_next = 0
    /\ search_out = <<>>
    /\ search_tasks = {}

\* segment: client.chat.completions.create(...) is entered, the request is sent.
SegmentRequest ==
    /\ search_pc = "call"
    /\ search_tasks' = search_tasks \cup {[op |-> "request", item |-> 0]}
    /\ search_pc' = "waiting"
    /\ UNCHANGED <<search_results, search_next, search_out, notSearchVars>>

\* create returns the validated Iterable[Search]; segment returns it.
SegmentReturn ==
    /\ search_pc = "waiting"
    /\ search_results' \in SearchLists
    /\ search_tasks' = search_tasks \ {[op |-> "request", item |-> 0]}
    /\ search_pc' = "loop"
    /\ UNCHANGED <<search_next, search_out, notSearchVars>>

\* One iteration of the for loop.
SearchLoopBody ==
    /\ search_pc = "loop"
    /\ search_next < Len(search_results)
    /\ LET k == search_next + 1
           search == search_results[k]
       IN  /\ search_out' = Append(search_out, model_dump_json(search))
           /\ search_tasks' = search_tasks \cup loop_body_tasks(search, k)
           /\ search_next' = k
    /\ UNCHANGED <<search_pc, search_results, notSearchVars>>

\* The iterable is exhausted.
SearchLoopEnd ==
    /\ search_pc = "loop"
    /\ search_next = Len(search_results)
    /\ search_pc' = "done"
    /\ UNCHANGED <<search_results, search_next, search_out, search_tasks, notSearchVars>>

InitSearch == SearchInit /\ NotSearchIdle

NextSearch == SegmentRequest \/ SegmentReturn \/ SearchLoopBody \/ SearchLoopEnd

SpecSearch == InitSearch /\ [][NextSearch]_vars

(***************************************************************************)
(* 17_document_segmentation: doc_with_lines, get_structured_document,      *)
(* get_sections_text.                                                      *)
(***************************************************************************)
NL == "\n"
SegChars == {"a", "b", NL}
Documents == StrsUpTo(SegChars, MaxDocLen)
LineIds == 0..MaxLine
Sections == [title : {<<"t">>}, start_index : LineIds, end_index : LineIds]
SectionLists == StrsUpTo(Sections, MaxSections)

\* str.split("\n")
RECURSIVE split_lines(_)
split_lines(s) ==
    IF NL \notin Range(s) THEN <<s>>
    ELSE LET i == CHOOSE j \in 1..Len(s) : s[j] = NL /\ \A k \in 1..(j - 1) : s[k] # NL
         IN  <<SubSeq(s, 1, i - 1)>> \o split_lines(SubSeq(s, i + 1, Len(s)))

\* "\n".join(contents)
RECURSIVE join_lines(_)
join_lines(contents) ==
    IF contents = <<>> THEN <<>>
    ELSE IF Len(contents) = 1 THEN contents[1]
    ELSE contents[1] \o <<NL>> \o join_lines(Tail(contents))

\* doc_with_lines(document): the numbered text and the dict line2text.
doc_with_lines(doc) ==
    LET document_lines == split_lines(doc)
    IN  [numbered |-> Flatten([i \in 1..Len(document_lines) |->
                         <<"[">> \o int_to_str(i - 1) \o <<"]", " ">>
                             \o document_lines[i] \o <<NL>>]),
         line2text |-> document_lines]

\* line2text.get(line_id, '')
line2text_get(line2text, line_id) ==
    IF line_id + 1 \in DOMAIN line2text THEN line2text[line_id + 1] ELSE <<>>

\* range(a, b) as a list
py_range(a, b) == [k \in 1..(IF b > a THEN b - a ELSE 0) |-> a + k - 1]

\* The lines one section collects.
section_contents(sec, line2text) ==
    LET ids == py_range(sec.start_index, sec.end_index)
    IN  [k \in 1..Len(ids) |-> line2text_get(line2text, ids[k])]

get_sections_text(sections, line2text) ==
    [i \in 1..Len(sections) |->
        [title |-> sections[i].title,
         content |-> join_lines(section_contents(sections[i], line2text)),
         start |-> sections[i].start_index,
         end |-> sections[i].end_index]]

SegInit ==
    /\ seg_document \in Documents
    /\ seg_numbered = <<>>
    /\ seg_line2text = <<>>
    /\ seg_sections = <<>>
    /\ seg_segments = <<>>
    /\ seg_pc = "lines"

DocWithLines ==
    /\ seg_pc = "lines"
    /\ seg_numbered' = doc_with_lines(seg_document).numbered
    /\ seg_line2text' = doc_with_lines(seg_document).line2text
    /\ seg_pc' = "structure"
    /\ UNCHANGED <<seg_document, seg_sections, seg_segments, notSegVars>>

\* get_structured_document: the model answers with any list of Sections.
GetStructuredDocument ==
    /\ seg_pc = "structure"
    /\ seg_sections' \in SectionLists
    /\ seg_pc' = "text"
    /\ UNCHANGED <<seg_document, seg_numbered, seg_line2text, seg_segments, notSegVars>>

GetSectionsText ==
    /\ seg_pc = "text"
    /\ seg_segments' = get_sections_text(seg_sections, seg_line2text)
    /\ seg_pc' = "done"
    /\ UNCHANGED <<seg_document, seg_numbered, seg_line2text, seg_sections, notSegVars>>

InitSeg == SegInit /\ NotSegIdle

NextSeg == DocWithLines \/ GetStructuredDocument \/ GetSectionsText

SpecSeg == InitSeg /\ [][NextSeg]_vars

(***************************************************************************)
(* 12_extracting_tables: md_to_df, the BeforeValidator of MarkdownDataFrame.*)
(***************************************************************************)
IndexCol == 1

\* A missing value of a DataFrame (no string of characters equals it).
NaN == <<"nan">>
Whitespace == {" ", NL}

\* str.split(sep) for a one-character separator
RECURSIVE split_str(_, _)
split_str(s, sep) ==
    IF sep \notin Range(s) THEN <<s>>
    ELSE LET i == CHOOSE j \in 1..Len(s) : s[j] = sep /\ \A k \in 1..(j - 1) : s[k] # sep
         IN  <<SubSeq(s, 1, i - 1)>> \o split_str(SubSeq(s, i + 1, Len(s)), sep)

RECURSIVE lstrip(_)
lstrip(s) == IF s # <<>> /\ Head(s) \in Whitespace THEN lstrip(Tail(s)) ELSE s

RECURSIVE rstrip(_)
rstrip(s) ==
    IF s # <<>> /\ s[Len(s)] \in Whitespace THEN rstrip(SubSeq(s, 1, Len(s) - 1)) ELSE s

\* str.strip()
strip(s) == rstrip(lstrip(s))

\* The entries of s at the positions in K, in order.
RECURSIVE keep_at(_, _, _)
keep_at(s, K, i) ==
    IF i > Len(s) THEN <<>>
    ELSE (IF i \in K THEN <<s[i]>> ELSE <<>>) \o keep_at(s, K, i + 1)

\* read_csv names a column after its header field: an empty field is
\* "Unnamed: <position>", a repeated name gets the suffix ".<count>".
col_name(hdr, i) ==
    IF hdr[i] = <<>> THEN <<"Unnamed: ">> \o int_to_str(i - 1)
    ELSE LET k == Cardinality({j \in 1..(i - 1) : hdr[j] = hdr[i]})
         IN  IF k = 0 THEN hdr[i] ELSE hdr[i] \o <<".">> \o int_to_str(k)

\* read_csv reads an empty field, and a field a short line lacks, as NaN.
field_value(fields, c) ==
    IF c > Len(fields) THEN NaN ELSE IF fields[c] = <<>> THEN NaN ELSE fields[c]

\* pd.read_csv(StringIO(data), sep="|", index_col=1)
read_csv(text) ==
    LET lines == SelectSeq(split_lines(text), LAMBDA l : l # <<>>)
        raw == [i \in 1..Len(lines) |-> split_str(lines[i], "|")]
        hdr == raw[1]
        names == [i \in 1..Len(hdr) |-> col_name(hdr, i)]
        body == [r \in 1..(Len(lines) - 1) |->
                    [c \in 1..Len(hdr) |-> field_value(raw[r + 1], c)]]
        rest == (1..Len(hdr)) \ {IndexCol + 1}
    IN  [index_name |-> names[IndexCol + 1],
         index |-> [r \in 1..Len(body) |-> body[r][IndexCol + 1]],
         columns |-> keep_at(names, rest, 1),
         values |-> [r \in 1..Len(body) |-> keep_at(body[r], rest, 1)]]

\* .dropna(axis=1, how="all")
dropna_columns(df) ==
    LET kept == {c \in 1..Len(df.columns) :
                    \E r \in 1..Len(df.values) : df.values[r][c] # NaN}
    IN  [df EXCEPT !.columns = keep_at(df.columns, kept, 1),
                   !.values = [r \in 1..Len(df.values) |-> keep_at(df.values[r], kept, 1)]]

\* .iloc[1:]
iloc_from(df, n) ==
    [df EXCEPT !.index = SubSeq(df.index, n + 1, Len(df.index)),
               !.values = SubSeq(df.values, n + 1, Len(df.values))]

\* .map(lambda x: x.strip()): the function is applied to the values of the
\* frame; a NaN value is a float and x.strip() raises AttributeError.
map_strip(df) ==
    IF \E r \in 1..Len(df.values) : NaN \in Range(df.values[r])
    THEN [ok |-> FALSE, error |-> "AttributeError", value |-> NoTable]
    ELSE [ok |-> TRUE, error |-> "none",
          value |-> [kind |-> "DataFrame", text |-> <<>>,
                     frame |-> [df EXCEPT !.values = [r \in 1..Len(df.values) |->
                            [c \in 1..Len(df.values[r]) |-> strip(df.values[r][c])]]]]]

\* md_to_df(data); data is [kind, ...] with kind "str" for a string.
md_to_df(data) ==
    IF data.kind = "str"
    THEN map_strip(iloc_from(dropna_columns(read_csv(data.text)), 1))
    ELSE [ok |-> TRUE, error |-> "none", value |-> data]

\* The markdown the model writes for a table: one line of cells between pipes
\* for the header, the separator line, one line for each row.
md_line(cells) == <<"|">> \o Flatten([c \in 1..Len(cells) |-> cells[c] \o <<"|">>])

markdown_of(header, rows) ==
    join_lines(<<md_line(header), md_line([c \in 1..Len(header) |-> <<"-">>])>>
                   \o [r \in 1..Len(rows) |-> md_line(rows[r])])

HeaderCells == {<<"a">>, <<" ", "b">>}
Cells == {<<>>, <<"x">>, <<" ", "x">>, <<"y", " ">>}
ColCounts == 1..MaxCols
RowCounts == 0..MaxRows
\* Values of the field that are not strings: a DataFrame, an integer.
NonStrings == {[kind |-> "DataFrame", frame |-> EmptyFrame, text |-> <<>>],
               [kind |-> "int", frame |-> EmptyFrame, text |-> <<>>]}

TblInitStr ==
    /\ \E n \in ColCounts, m \in RowCounts :
          /\ tbl_header \in [1..n -> HeaderCells]
          /\ tbl_rows \in [1..m -> [1..n -> Cells]]
    /\ tbl_data = [kind |-> "str", frame |-> EmptyFrame,
                   text |-> markdown_of(tbl_header, tbl_rows)]
    /\ tbl_result = NoResult
    /\ tbl_pc = "before"

TblInitOther ==
    /\ tbl_header = <<>>
    /\ tbl_rows = <<>>
    /\ tbl_data \in NonStrings
    /\ tbl_result = NoResult
    /\ tbl_pc = "before"

TblInit == TblInitStr \/ TblInitOther

\* BeforeValidator(md_to_df)
MdToDf ==
    /\ tbl_pc = "before"
    /\ tbl_result' = md_to_df(tbl_data)
    /\ tbl_pc' = IF md_to_df(tbl_data).ok THEN "instance" ELSE "raised"
    /\ UNCHANGED <<tbl_header, tbl_rows, tbl_data, notTblVars>>

\* InstanceOf[pd.DataFrame]
InstanceOfDataFrame ==
    /\ tbl_pc = "instance"
    /\ tbl_pc' = IF tbl_result.value.kind = "DataFrame" THEN "valid" ELSE "invalid"
    /\ UNCHANGED <<tbl_header, tbl_rows, tbl_data, tbl_result, notTblVars>>

InitTbl == TblInit /\ NotTblIdle

NextTbl == MdToDf \/ InstanceOfDataFrame

SpecTbl == InitTbl /\ [][NextTbl]_vars

(***************************************************************************)
(* Graph drawing: generate_graph of 08_entity_resolution,                  *)
(* KnowledgeGraph.draw of 06_knowledge_graph, the action items cell.       *)
(***************************************************************************)
\* Digraph.node(name, label) and Digraph.edge(tail_name, head_name): each call
\* appends one statement to the body of the graph.
dot_node(name, label) ==
    [stmt |-> "node", name |-> name, label |-> label, tail |-> <<>>, head |-> <<>>]
dot_edge(tail, head) ==
    [stmt |-> "edge", name |-> <<>>, label |-> "", tail |-> tail, head |-> head]

\* 08_entity_resolution generate_graph(data): a node for each entity, then
\* an edge for each dependency of each entity.
entity_graph_declared_only(entities) ==
    LET ids == {entities[i].id : i \in 1..Len(entities)}
    IN  [i \in 1..Len(entities) |-> dot_node(int_to_str(entities[i].id), entities[i].entity_title)]
        \o Flatten([i \in 1..Len(entities) |->
               LET e == entities[i]
                   deps == SelectSeq(e.dependencies, LAMBDA d : d \in ids /\ d # e.id)
               IN  [k \in 1..Len(deps) |-> dot_edge(int_to_str(e.id), int_to_str(deps[k]))]])

entity_graph(entities) ==
    [i \in 1..Len(entities) |-> dot_node(int_to_str(entities[i].id), entities[i].entity_title)]
    \o Flatten([i \in 1..Len(entities) |->
           LET e == entities[i]
           IN  [k \in 1..Len(e.dependencies) |->
                   dot_edge(int_to_str(e.id), int_to_str(e.dependencies[k]))]])

\* KnowledgeGraph.draw: a node for each node, then an edge for each edge.
draw(self) ==
    [i \in 1..Len(self.nodes) |-> dot_node(int_to_str(self.nodes[i].id), self.nodes[i].label)]
    \o [i \in 1..Len(self.edges) |->
           dot_edge(int_to_str(self.edges[i].source), int_to_str(self.edges[i].target))]

\* An Optional[List[...]] value: None, or a list.
None == [none |-> TRUE, items |-> <<>>]
Some(items) == [none |-> FALSE, items |-> items]
\* "if x:" for an Optional[List]: false for None and for the empty list.
truthy(x) == ~x.none /\ x.items # <<>>

\* f"{ticket.id}.{subtask.id}"
subtask_key(ticket, subtask) == int_to_str(ticket.id) \o <<".">> \o int_to_str(subtask.id)

\* The statements the action items cell emits for one ticket.
ticket_statements_no_edge(ticket) ==
    <<dot_node(int_to_str(ticket.id), ticket.name)>>
    \o (IF truthy(ticket.subtasks)
        THEN [k \in 1..Len(ticket.subtasks.items) |->
                   dot_node(subtask_key(ticket, ticket.subtasks.items[k]),
                            ticket.subtasks.items[k].name)]
        ELSE <<>>)
    \o (IF truthy(ticket.dependencies)
        THEN [k \in 1..Len(ticket.dependencies.items) |->
                 dot_edge(int_to_str(ticket.dependencies.items[k]), int_to_str(ticket.id))]
        ELSE <<>>)

ticket_statements(ticket) ==
    <<dot_node(int_to_str(ticket.id), ticket.name)>>
    \o (IF truthy(ticket.subtasks)
        THEN Flatten([k \in 1..Len(ticket.subtasks.items) |->
                 <<dot_node(subtask_key(ticket, ticket.subtasks.items[k]),
                            ticket.subtasks.items[k].name),
                   dot_edge(int_to_str(ticket.id),
                            subtask_key(ticket, ticket.subtasks.items[k]))>>])
        ELSE <<>>)
    \o (IF truthy(ticket.dependencies)
        THEN [k \in 1..Len(ticket.dependencies.items) |->
                 dot_edge(int_to_str(ticket.dependencies.items[k]), int_to_str(ticket.id))]
        ELSE <<>>)

\* for ticket in prediction: ...
action_items_graph(prediction) ==
    Flatten([i \in 1..Len(prediction) |-> ticket_statements(prediction[i])])

\* Ids the model may write down: 1 and 2 are given to records, 3 to none.
RecordIds == {1, 2}
DepLists == {<<>>, <<1>>, <<2>>, <<3>>, <<1, 2, 3>>}
Entities == [id : RecordIds, entity_title : {"e"}, dependencies : DepLists]
EntityLists == StrsUpTo(Entities, MaxRecords)
DrawEdgePool == [source : {1, 2, 3}, target : {1, 2, 3}, label : {"e"}, color : {"black"}]
DrawGraphs == [nodes : StrsUpTo(NodePool, MaxNodes), edges : StrsUpTo(DrawEdgePool, MaxDrawEdges)]
SubtaskLists ==
    {None, Some(<<>>), Some(<<[id |-> 1, name |-> "s"]>>),
     Some(<<[id |-> 2, name |-> "s"], [id |-> 1, name |-> "s"]>>)}
DependencyLists == {None} \cup {Some(l) : l \in DepLists}
Tickets == [id : RecordIds, name : {"t"}, subtasks : SubtaskLists,
            dependencies : DependencyLists]
TicketLists == StrsUpTo(Tickets, MaxRecords)

DrawInit ==
    /\ draw_site \in {"entity", "kg", "tickets"}
    /\ draw_entities \in IF draw_site = "entity" THEN EntityLists ELSE {<<>>}
    /\ draw_graph \in IF draw_site = "kg" THEN DrawGraphs ELSE {EmptyGraph}
    /\ draw_tickets \in IF draw_site = "tickets" THEN TicketLists ELSE {<<>>}
    /\ draw_body = <<>>
    /\ draw_pc = "build"

\* generate_graph(data), up to and including dot.render("entity.gv", view=True)
EntityGenerateGraph ==
    /\ draw_pc = "build" /\ draw_site = "entity"
    /\ draw_body' = entity_graph(draw_entities)
    /\ draw_pc' = "rendered"
    /\ UNCHANGED <<draw_site, draw_entities, draw_graph, draw_tickets, notDrawVars>>

\* KnowledgeGraph.draw(prefix), up to and including dot.render(...)
KnowledgeGraphDraw ==
    /\ draw_pc = "build" /\ draw_site = "kg"
    /\ draw_body' = draw(draw_graph)
    /\ draw_pc' = "rendered"
    /\ UNCHANGED <<draw_site, draw_entities, draw_graph, draw_tickets, notDrawVars>>

\* The action items cell, up to and including dot.render('action_items', view=True)
ActionItemsGraph ==
    /\ draw_pc = "build" /\ draw_site = "tickets"
    /\ draw_body' = action_items_graph(draw_tickets)
    /\ draw_pc' = "rendered"
    /\ UNCHANGED <<draw_site, draw_entities, draw_graph, draw_tickets, notDrawVars>>

InitDraw == DrawInit /\ NotDrawIdle

NextDraw == EntityGenerateGraph \/ KnowledgeGraphDraw \/ ActionItemsGraph

SpecDraw == InitDraw /\ [][NextDraw]_vars

(***************************************************************************)
(* 06_knowledge_graph: the iterative generate_graph(input).                *)
(***************************************************************************)
TextChunks == {"p", "q"}
InputLists == StrsUpTo(TextChunks, MaxParts)
\* Graphs the model answers with: empty, one node, repeated and reordered nodes.
ResponsePool ==
    LET n1 == [id |-> 1, label |-> "x", color |-> "red"]
        n2 == [id |-> 2, label |-> "x", color |-> "red"]
        e12 == [source |-> 1, target |-> 2, label |-> "e", color |-> "black"]
        e21 == [source |-> 2, target |-> 1, label |-> "e", color |-> "black"]
    IN  {EmptyGraph,
         [nodes |-> <<n1>>, edges |-> <<>>],
         [nodes |-> <<n2, n1>>, edges |-> <<e12>>],
         [nodes |-> <<n2, n2>>, edges |-> <<e21>>]}

\* The user messages of the request of iteration i: the part and the
\* current state of the graph.
request_messages_stateless(i, num_iterations, inp, cur_state) ==
    [part |-> i, of |-> num_iterations, inp |-> inp, state |-> EmptyGraph]

request_messages(i, num_iterations, inp, cur_state) ==
    [part |-> i, of |-> num_iterations, inp |-> inp, state |-> cur_state]

\* self.update(other) on objects: the objects after the call and the reference
\* returned.  update builds new lists and a new KnowledgeGraph.
update_object_in_place(heap, self, other) ==
    {[heap |-> [heap EXCEPT ![self] = g], ref |-> self] : g \in update(heap[self], heap[other])}

update_object(heap, self, other) ==
    {[heap |-> Append(heap, g), ref |-> Len(heap) + 1] : g \in update(heap[self], heap[other])}

\* cur_state = cur_state.update(new_updates): the reference bound to cur_state.
loop_assign_new(updated, new_updates) == new_updates

loop_assign(updated, new_updates) == updated

\* cur_state = KnowledgeGraph(); num_iterations = len(input)
GenInit ==
    /\ gen_input \in InputLists
    /\ gen_heap = <<EmptyGraph>>
    /\ gen_cur = 1
    /\ gen_new = 0
    /\ gen_i = 0
    /\ gen_calls = <<>>
    /\ gen_responses = <<>>
    /\ gen_result = 0
    /\ gen_pc = "loop"

\* client.chat.completions.create(...) is entered for element i.
GenRequest ==
    /\ gen_pc = "loop"
    /\ gen_i < Len(gen_input)
    /\ gen_calls' = Append(gen_calls,
           request_messages(gen_i, Len(gen_input), gen_input[gen_i + 1], gen_heap[gen_cur]))
    /\ gen_pc' = "waiting"
    /\ UNCHANGED <<gen_input, gen_heap, gen_cur, gen_new, gen_i, gen_responses, gen_result,
                   notGenVars>>

\* create returns new_updates, a KnowledgeGraph.
GenResponse ==
    /\ gen_pc = "waiting"
    /\ \E g \in ResponsePool :
          /\ gen_heap' = Append(gen_heap, g)
          /\ gen_responses' = Append(gen_responses, g)
    /\ gen_new' = Len(gen_heap) + 1
    /\ gen_pc' = "update"
    /\ UNCHANGED <<gen_input, gen_cur, gen_i, gen_calls, gen_result, notGenVars>>

\* create raises (the request or the validation failed): generate_graph ends.
GenRaise ==
    /\ gen_pc = "waiting"
    /\ gen_pc' = "raised"
    /\ UNCHANGED <<gen_input, gen_heap, gen_cur, gen_new, gen_i, gen_calls, gen_responses,
                   gen_result, notGenVars>>

\* cur_state = cur_state.update(new_updates)
GenUpdate ==
    /\ gen_pc = "update"
    /\ \E r \in update_object(gen_heap, gen_cur, gen_new) :
          /\ gen_heap' = r.heap
          /\ gen_cur' = loop_assign(r.ref, gen_new)
    /\ gen_i' = gen_i + 1
    /\ gen_pc' = "loop"
    /\ UNCHANGED <<gen_input, gen_new, gen_calls, gen_responses, gen_result, notGenVars>>

\* return cur_state
GenReturn ==
    /\ gen_pc = "loop"
    /\ gen_i = Len(gen_input)
    /\ gen_result' = gen_cur
    /\ gen_pc' = "returned"
    /\ UNCHANGED <<gen_input, gen_heap, gen_cur, gen_new, gen_i, gen_calls, gen_responses,
                   notGenVars>>

InitGen == GenInit /\ NotGenIdle

NextGen == GenRequest \/ GenResponse \/ GenRaise \/ GenUpdate \/ GenReturn

SpecGen == InitGen /\ [][NextGen]_vars

(***************************************************************************)
(* Properties of the exact-citation validator.                             *)
(***************************************************************************)
\* C1: after Fact.validate_sources ran, every string left in substring_quote
\* is an exact contiguous substring of the context.
C1_QuotesAreSubstrings ==
    fact_pc = "validated" =>
        \A k \in 1..Len(substring_quote) : Occurs(substring_quote[k], text_chunk)

\* A validated Fact that kept a quote that is not empty and lost another one.
C1_Witness ==
    /\ fact_pc = "validated"
    /\ \E k \in 1..Len(substring_quote) : substring_quote[k] # <<>>
    /\ \E k \in 1..Len(submitted) : ~Occurs(submitted[k], text_chunk)

\* C2: matching is literal: a submitted quote that does not occur character
\* for character in the context is not in the validated list, and every
\* validated string is one of the submitted quotes, metacharacters included
\* (the quote "." is matched by the character "." only).
C2_LiteralMatch ==
    fact_pc = "validated" =>
        /\ \A k \in 1..Len(submitted) :
              ~Occurs(submitted[k], text_chunk) => submitted[k] \notin Range(substring_quote)
        /\ Range(substring_quote) = {q \in Range(submitted) : Occurs(q, text_chunk)}

\* A quote holding a metacharacter was dropped from a context that has other
\* characters but not that quote.
C2_Witness ==
    /\ fact_pc = "validated"
    /\ \E k \in 1..Len(submitted) :
          /\ "." \in Range(submitted[k])
          /\ Len(submitted[k]) <= Len(text_chunk)
          /\ ~Occurs(submitted[k], text_chunk)
          /\ submitted[k] \notin Range(substring_quote)

\* C3: validation only removes quotes: the validated list is the submitted
\* list without the quotes that are not found, each found quote kept once in
\* its original position, so the list never grows.  (Stated for submitted
\* quotes that are not empty.)
C3_OnlyRemoves ==
    (fact_pc = "validated" /\ <<>> \notin Range(submitted)) =>
        LET Found(q) == Occurs(q, text_chunk)
        IN  /\ substring_quote = SelectSeq(submitted, Found)
            /\ Len(substring_quote) <= Len(submitted)

\* C4: in a validated QuestionAnswer every Fact of answer has at least one
\* validated quote; every Fact was validated before the filter ran; the Facts
\* kept are exactly those with a quote found in the context, in their order.
C4_FactsHaveQuotes ==
    qa_pc = "done" =>
        /\ qa_done = Len(qa_submitted)
        /\ \A k \in 1..Len(answer) :
              /\ Len(answer[k].substring_quote) > 0
              /\ \A j \in 1..Len(answer[k].substring_quote) :
                    Occurs(answer[k].substring_quote[j], qa_context)
        /\ \A k \in 1..(Len(answer) - 1) : answer[k].id < answer[k + 1].id
        /\ {answer[k].id : k \in 1..Len(answer)} =
              {i \in 1..Len(qa_submitted) :
                  \E q \in Range(qa_submitted[i]) : Occurs(q, qa_context)}

\* A validated QuestionAnswer that lost its first Fact and kept a later one.
C4_Witness ==
    /\ qa_pc = "done"
    /\ Len(answer) >= 1
    /\ Len(answer) < Len(qa_submitted)
    /\ answer[1].id > 1

(***************************************************************************)
(* Properties of the PII scrubber.                                         *)
(***************************************************************************)
\* Entry number i (0-based) found its value in the running text, so that its
\* placeholder was written into the text.
Inserted(i) ==
    Occurs(private_data[i + 1].pii_value, scrub_prefix(private_data, document, i))

NonEmptyValues == \A k \in 1..Len(private_data) : private_data[k].pii_value # <<>>

\* C5: in the text scrub_data returns, the occurrences of each pii_value are
\* replaced by the placeholder <{data_type}_{i}> of that entry, and every
\* placeholder written into the text appears in the returned text intact.
\* (Stated for values that are not empty.)
C5_PlaceholdersIntact ==
    (scrub_pc = "done" /\ NonEmptyValues) =>
        \A i \in 0..(Len(private_data) - 1) :
            Inserted(i) =>
                Occurs(placeholder(private_data[i + 1].data_type, i), scrubbed)

\* C6: the returned document is sanitized: no pii_value of private_data
\* occurs in it.  (Stated for values that are not empty.)
C6_Sanitized ==
    (scrub_pc = "done" /\ NonEmptyValues) =>
        \A i \in 1..Len(private_data) : ~Occurs(private_data[i].pii_value, scrubbed)

(***************************************************************************)
(* Properties of the knowledge-graph merge.                                *)
(***************************************************************************)
\* C7: update deduplicates: the nodes of the returned graph are exactly the
\* union of the nodes of self and other, its edges exactly the union of their
\* edges, and each distinct node and edge appears exactly once.
C7_UpdateIsUnion ==
    kg_pc = "done" =>
        /\ Range(kg_result.nodes) = Range(kg_self.nodes) \cup Range(kg_other.nodes)
        /\ Range(kg_result.edges) = Range(kg_self.edges) \cup Range(kg_other.edges)
        /\ Len(kg_result.nodes) = Cardinality(Range(kg_result.nodes))
        /\ Len(kg_result.edges) = Cardinality(Range(kg_result.edges))

\* self holds a node twice and shares a node and an edge with other.
C7_Witness ==
    /\ kg_pc = "done"
    /\ Len(kg_self.nodes) > Cardinality(Range(kg_self.nodes))
    /\ Range(kg_self.nodes) \cap Range(kg_other.nodes) # {}
    /\ Range(kg_self.edges) \cap Range(kg_other.edges) # {}
    /\ Len(kg_result.nodes) = 2

(***************************************************************************)
(* Properties of the structured-output calls.                              *)
(***************************************************************************)
\* The object is an instance of the response model of the call site.
Conforms(site, obj) ==
    CASE site = "classify" ->
            obj.type = "SpamPrediction" /\ obj.label \in {"spam", "not_spam"}
      [] site = "multi_classify" ->
            obj.type = "CustomerSupportType"
            /\ obj.label \in {"tech_issue", "billing", "general_query"}
      [] site = "groq_extract" ->
            obj.type = "UserExtract" /\ obj.name = "Paul" /\ obj.age \in Int
      [] OTHER -> obj.type = "QuestionAnswerNoEvil"

\* C8: every object a structured-output call hands over conforms to the
\* requested response model (classify: label spam or not_spam; multi_classify:
\* every element tech_issue, billing or general_query; the Groq extraction: a
\* UserExtract), and so does what the cell binds; a response that does not
\* conform is never returned.
C8_ResultConforms ==
    /\ \A k \in 1..Len(call_yielded) : Conforms(call_site, call_yielded[k])
    /\ call_pc = "returned" =>
          /\ Len(call_yielded) = Len(call_response)
          /\ call_site \in {"classify", "multi_classify"} =>
                \A k \in 1..Len(call_response) :
                    /\ "label" \in DOMAIN call_response[k]
                    /\ call_response[k].label = call_yielded[k].label
    /\ (cell_pc = "finished" /\ call_pc = "returned" /\ call_site # "multi_classify") =>
          Conforms(call_site, nb_bound)
    /\ (cell_pc = "finished" /\ call_pc = "returned" /\ call_site = "multi_classify") =>
          \A k \in 1..Len(nb_bound.items) : Conforms(call_site, nb_bound.items[k])

\* classify returned and the cell bound a SpamPrediction.
C8_Witness ==
    /\ call_site = "classify"
    /\ cell_pc = "finished"
    /\ nb_bound.type = "SpamPrediction"

\* C9: when the generated answer fails its validator and no retry count is
\* given, the call ends in a validation exception that carries the validator's
\* message and hands over no object; the cell catches the exception, prints
\* it, and the name bound before keeps its value.
C9_FailureState ==
    (call_site = "qa_noevil" /\ call_made >= 1 /\ ~call_verdict.is_valid) =>
        /\ call_pc = "raised"
        /\ call_made = 1
        /\ call_yielded = <<>>
        /\ call_error = <<"Assertion failed", call_verdict.reason>>
        /\ cell_pc # "aborted"

C9_HandlerStep ==
    (call_site = "qa_noevil" /\ call_pc = "raised" /\ cell_pc = "running" /\ cell_pc' # "running") =>
        /\ cell_pc' = "finished"
        /\ nb_bound' = nb_bound
        /\ nb_out' = Append(nb_out, call_error)

\* C9: a failed validation without retry count always ends in the raised
\* validation error, and the handler step prints it and leaves the name alone.
C9_ValidationErrorPrinted == [](C9_FailureState) /\ [][C9_HandlerStep]_vars

\* The call raised, the handler printed the error and qa still holds the
\* object of the earlier cell.
C9_Witness ==
    /\ call_site = "qa_noevil"
    /\ call_pc = "raised"
    /\ cell_pc = "finished"
    /\ nb_bound.type = "QuestionAnswer"
    /\ nb_out = <<call_error>>

\* C10: a create call with max_retries=3 terminates: after a validation
\* failure the request is sent again with the error message as correction,
\* the number of repeated requests is bounded by the retry count, and the call
\* ends by returning an object that passed the validator or by raising when
\* the retries are used up.
ReIssues == IF call_pc = "ready" THEN call_made ELSE call_made - 1

C10_Safety ==
    call_site = "qa_noevil_retry" =>
        /\ ReIssues <= 3
        /\ call_made <= 3 \/ call_pc = "ready"
        /\ Len(call_messages) = 2 + 2 * ReIssues
        /\ \A k \in 1..ReIssues :
              /\ call_messages[2 * k + 1].role = "assistant"
              /\ call_messages[2 * k + 2].role = "user"
              /\ call_messages[2 * k + 2].content = <<"Assertion failed", "objectionable">>
        /\ (call_pc = "ready" /\ call_made >= 1) =>
              call_messages[Len(call_messages)].content = call_error
        /\ call_pc = "returned" =>
              /\ call_verdict.is_valid
              /\ Len(call_yielded) = 1
              /\ call_yielded[1].type = "QuestionAnswerNoEvil"
        /\ call_pc = "raised" =>
              /\ ~call_verdict.is_valid
              /\ call_yielded = <<>>
              /\ call_made = 3

C10_Ended == call_site = "qa_noevil_retry" => call_pc \in {"returned", "raised"}

\* C10: the retrying call keeps within its retry count, repeats the request
\* with the error message, and eventually returns or raises.
C10_RetryTerminates == [](C10_Safety) /\ <>(C10_Ended)

\* The first answer failed the validator and a repeated request returned an
\* object.
C10_Witness ==
    /\ call_site = "qa_noevil_retry"
    /\ call_pc = "returned"
    /\ call_made >= 2

\* C11: constructing Response(message=m) hands m to the moderation check once the
\* field is computed; a flagged m raises a validation error that names the flagged
\* categories and leaves no Response, an unflagged m gives a Response holding m.
C11_ModerationGatesResponse ==
    /\ mod_pc \in {"field", "built", "raised", "printed"} => mod_value = mod_message
    /\ mod_pc \in {"built", "raised", "printed"} =>
          IF mod_verdict.flagged
          THEN /\ mod_response = NoObject
               /\ mod_pc \in {"raised", "printed"}
               /\ Len(mod_error) = 1
               /\ mod_error[1].loc = "message"
               /\ mod_error[1].input = mod_message
               /\ mod_error[1].flagged_for = mod_verdict.categories
          ELSE /\ mod_pc = "built"
               /\ mod_error = NoError
               /\ mod_response = [type |-> "Response", message |-> mod_message]

C11_Witness ==
    /\ mod_pc = "printed"
    /\ mod_verdict.flagged
    /\ mod_verdict.categories = {"violence"}
    /\ mod_message # <<>>
    /\ mod_response = NoObject
    /\ mod_out = <<mod_error>>

C13_ContentThroughEnd ==
    seg_pc = "done" =>
        \A i \in 1..Len(seg_sections) :
            LET s == seg_sections[i].start_index
                e == seg_sections[i].end_index
            IN  (s <= e /\ e < Len(seg_line2text)) =>
                    seg_segments[i].content =
                        join_lines([k \in 1..(e - s + 1) |-> seg_line2text[s + k]])

\* C14: md_to_df turns a pipe-delimited markdown table given as a string into a
\* table whose column names come from the header row, whose index is the first
\* column, without the separator row and without the entirely empty columns, and
\* in which every cell is stripped of surrounding whitespace; an input that is
\* not a string is returned unchanged.  (Stated for tables with non-empty cells
\* and distinct header cells.)
C14_MarkdownToTable ==
    tbl_pc \in {"instance", "valid", "invalid", "raised"} =>
        IF tbl_data.kind = "str"
        THEN ((\A r \in 1..Len(tbl_rows) : <<>> \notin Range(tbl_rows[r]))
              /\ (\A i, j \in 1..Len(tbl_header) : tbl_header[i] = tbl_header[j] => i = j))
             => /\ tbl_result.ok
                /\ tbl_result.value.kind = "DataFrame"
                /\ LET df == tbl_result.value.frame
                   IN  /\ df.index_name = tbl_header[1]
                       /\ df.columns = Tail(tbl_header)
                       /\ df.index = [r \in 1..Len(tbl_rows) |-> strip(tbl_rows[r][1])]
                       /\ df.values = [r \in 1..Len(tbl_rows) |->
                              [c \in 1..(Len(tbl_header) - 1) |-> strip(tbl_rows[r][c + 1])]]
        ELSE tbl_result.ok /\ tbl_result.value = tbl_data

\* The edge statements of the graph drawn, as <<tail, head>> pairs in order.
EdgesDrawn ==
    LET es == SelectSeq(draw_body, LAMBDA st : st.stmt = "edge")
    IN  [k \in 1..Len(es) |-> <<es[k].tail, es[k].head>>]
\* The names of the nodes the graph declares.
NodesDeclared == {draw_body[k].name : k \in {j \in 1..Len(draw_body) : draw_body[j].stmt = "node"}}
\* The number of positions of seq that hold x.
CountIn(seq, x) == Cardinality({k \in 1..Len(seq) : seq[k] = x})
\* The positions <<i, k>> of the entries of a list of lists.
Positions(lists) == UNION {{<<i, k>> : k \in 1..Len(lists[i])} : i \in 1..Len(lists)}

\* C15: the graphs are drawn from the dependency lists as they are: each graph has
\* one edge for every listed dependency or edge record, also when an endpoint names
\* no declared node and when the edge is a self-reference or closes a cycle, and
\* drawing always completes.
C15_EdgesAsListed ==
    /\ draw_pc = "rendered" /\ draw_site = "entity" =>
          LET deps == [i \in 1..Len(draw_entities) |-> draw_entities[i].dependencies]
          IN  \A a \in {1, 2, 3}, b \in {1, 2, 3} :
                CountIn(EdgesDrawn, <<int_to_str(a), int_to_str(b)>>) =
                    Cardinality({p \in Positions(deps) :
                        draw_entities[p[1]].id = a /\ deps[p[1]][p[2]] = b})
    /\ draw_pc = "rendered" /\ draw_site = "kg" =>
          \A a \in {1, 2, 3}, b \in {1, 2, 3} :
              CountIn(EdgesDrawn, <<int_to_str(a), int_to_str(b)>>) =
                  Cardinality({k \in 1..Len(draw_graph.edges) :
                      draw_graph.edges[k].source = a /\ draw_graph.edges[k].target = b})
    /\ draw_pc = "rendered" /\ draw_site = "tickets" =>
          LET deps == [i \in 1..Len(draw_tickets) |-> draw_tickets[i].dependencies.items]
          IN  \A a \in {1, 2, 3}, b \in {1, 2, 3} :
                CountIn(EdgesDrawn, <<int_to_str(b), int_to_str(a)>>) =
                    Cardinality({p \in Positions(deps) :
                        draw_tickets[p[1]].id = a /\ deps[p[1]][p[2]] = b})
    /\ draw_pc \in {"build", "rendered"}
    /\ draw_pc = "build" => draw_body = <<>>

\* An entity graph with a self-reference, an edge to an id no entity has, and a cycle.
C15_Witness ==
    /\ draw_pc = "rendered" /\ draw_site = "entity"
    /\ \E k \in 1..Len(EdgesDrawn) : EdgesDrawn[k][1] = EdgesDrawn[k][2]
    /\ \E k \in 1..Len(EdgesDrawn) : EdgesDrawn[k][2] \notin NodesDeclared
    /\ \E j, k \in 1..Len(EdgesDrawn) :
          /\ EdgesDrawn[j][1] # EdgesDrawn[j][2]
          /\ EdgesDrawn[j] = <<EdgesDrawn[k][2], EdgesDrawn[k][1]>>

\* The node statements of the graph drawn: their names, in order.
NodeNamesDrawn ==
    LET ns == SelectSeq(draw_body, LAMBDA st : st.stmt = "node")
    IN  [k \in 1..Len(ns) |-> ns[k].name]

\* C19: the action items graph has one node keyed str(ticket.id) for each ticket,
\* for each subtask one node keyed "<ticket.id>.<subtask.id>" and one edge from the
\* ticket to it, and for each dependency d of a ticket one edge from str(d) to the
\* ticket; subtasks or dependencies that are None add nothing, and no dependency
\* edge starts at the key of a subtask.
C19_ActionItemsGraph ==
    draw_pc = "rendered" /\ draw_site = "tickets" =>
        LET subs == [i \in 1..Len(draw_tickets) |-> draw_tickets[i].subtasks.items]
            deps == [i \in 1..Len(draw_tickets) |-> draw_tickets[i].dependencies.items]
        IN  /\ \A a \in {1, 2, 3} :
                  CountIn(NodeNamesDrawn, int_to_str(a)) =
                      Cardinality({i \in 1..Len(draw_tickets) : draw_tickets[i].id = a})
            /\ \A a \in {1, 2, 3}, b \in {1, 2, 3} :
                  LET key == int_to_str(a) \o <<".">> \o int_to_str(b)
                      n == Cardinality({p \in Positions(subs) :
                               draw_tickets[p[1]].id = a /\ subs[p[1]][p[2]].id = b})
                  IN  /\ CountIn(NodeNamesDrawn, key) = n
                      /\ CountIn(EdgesDrawn, <<int_to_str(a), key>>) = n
                      /\ CountIn(EdgesDrawn, <<int_to_str(b), int_to_str(a)>>) =
                             Cardinality({p \in Positions(deps) :
                                 draw_tickets[p[1]].id = a /\ deps[p[1]][p[2]] = b})
            /\ Len(draw_body) = Len(draw_tickets) + 2 * Cardinality(Positions(subs))
                                    + Cardinality(Positions(deps))
            /\ \A k \in 1..Len(EdgesDrawn) : "." \notin Range(EdgesDrawn[k][1])

\* Two tickets drawn: one with subtasks and dependencies, one with None for both.
C19_Witness ==
    /\ draw_pc = "rendered" /\ draw_site = "tickets"
    /\ Len(draw_tickets) = 2
    /\ Len(draw_tickets[1].subtasks.items) = 2
    /\ Len(draw_tickets[1].dependencies.items) = 3
    /\ draw_tickets[2].subtasks = None /\ draw_tickets[2].dependencies = None
    /\ Len(draw_body) = 9

\* The nodes and the edges of the first k responses.
NodesOfFirst(k) == UNION {Range(gen_responses[j].nodes) : j \in 1..k}
EdgesOfFirst(k) == UNION {Range(gen_responses[j].edges) : j \in 1..k}

\* C16: the iterative generate_graph makes one API call per element of input, in
\* input order and one after another: a call is sent only when every earlier call
\* has been answered, the call for element k carries the graph accumulated from the
\* responses before k, a run that returns has made exactly one call per element,
\* and for an empty input no call is made and the empty graph is returned.
C16_OneCallPerElement ==
    /\ Len(gen_calls) <= Len(gen_input)
    /\ Len(gen_calls) = Len(gen_responses) + (IF gen_pc \in {"waiting", "raised"} THEN 1 ELSE 0)
    /\ \A k \in 1..Len(gen_calls) :
          /\ gen_calls[k].inp = gen_input[k]
          /\ gen_calls[k].part = k - 1
          /\ gen_calls[k].of = Len(gen_input)
          /\ Range(gen_calls[k].state.nodes) = NodesOfFirst(k - 1)
          /\ Range(gen_calls[k].state.edges) = EdgesOfFirst(k - 1)
    /\ gen_pc = "returned" =>
          /\ Len(gen_calls) = Len(gen_input)
          /\ gen_input = <<>> => gen_heap[gen_result] = EmptyGraph

C16_Witness ==
    /\ gen_pc = "returned"
    /\ Len(gen_input) = 2 /\ gen_input[1] # gen_input[2]
    /\ Len(gen_calls) = 2
    /\ gen_calls[2].state.nodes # <<>>

\* C17: the accumulated state only grows: after the k-th iteration the nodes and
\* the edges of cur_state are the unions of those of the first k responses, a node
\* or edge of cur_state stays in it at every later step, and the returned graph is
\* the last cur_state.
C17_Accumulated ==
    /\ Range(gen_heap[gen_cur].nodes) = NodesOfFirst(gen_i)
    /\ Range(gen_heap[gen_cur].edges) = EdgesOfFirst(gen_i)
    /\ gen_pc = "returned" => gen_result = gen_cur /\ gen_i = Len(gen_input)

C17_Kept ==
    /\ Range(gen_heap[gen_cur].nodes) \subseteq Range(gen_heap'[gen_cur'].nodes)
    /\ Range(gen_heap[gen_cur].edges) \subseteq Range(gen_heap'[gen_cur'].edges)

C17_StateOnlyGrows == [](C17_Accumulated) /\ [][C17_Kept]_vars

C17_Witness ==
    /\ gen_pc = "returned"
    /\ gen_i = 2
    /\ gen_responses[1].nodes # <<>>
    /\ gen_responses[2] = EmptyGraph
    /\ Range(gen_heap[gen_result].nodes) = Range(gen_responses[1].nodes)

\* C18: KnowledgeGraph.update is pure: the call leaves every existing object, self
\* and other among them, with the nodes and edges it had, and returns an object
\* that did not exist before.
C18_UpdateStep ==
    gen_pc = "update" /\ gen_pc' = "loop" =>
        /\ \A r \in DOMAIN gen_heap : r \in DOMAIN gen_heap' /\ gen_heap'[r] = gen_heap[r]
        /\ gen_cur' \notin DOMAIN gen_heap
        /\ gen_cur' \in DOMAIN gen_heap'

C18_UpdateIsPure == [][C18_UpdateStep]_vars

C18_Witness ==
    /\ gen_pc = "loop"
    /\ gen_i = 1
    /\ Len(gen_heap) = 3
    /\ gen_cur = 3
    /\ gen_heap[1] = EmptyGraph
    /\ gen_heap[2] = gen_responses[1]
    /\ gen_heap[3] # gen_heap[1]

====
